---- MODULE Spec2Model ----
(***************************************************************************)
(* Model of download-server.py: a socketserver.TCPServer on port 8080      *)
(* whose handler class DownloadHandler overrides do_GET of                 *)
(* http.server.SimpleHTTPRequestHandler.                                   *)
(*                                                                         *)
(* A request target is a sequence of tokens: the token "/" is one slash    *)
(* character, a token starting with "?" is a query string, any other token *)
(* is a run of characters without a slash.  So "//" is <<"/", "/">> and    *)
(* "/governance-methodology.txt/" is                                       *)
(* <<"/", "governance-methodology.txt", "/">>.  Message bodies and file    *)
(* contents are sequences of string tokens.  Requests are well-formed      *)
(* HTTP/1.x requests that arrive complete with their connection.           *)
(***************************************************************************)
EXTENDS Integers, Sequences, FiniteSets, TLC

VARIABLES
    files,      \* working directory: backing file name -> [exists, data]
    listening,  \* the TCPServer socket is bound and serve_forever is running
    cstate,     \* connection -> "unborn" | "queued" | "accepted" | "headers" | "closed"
    req,        \* connection -> [method, target] as sent by the client
    resp,       \* connection -> what the client has received so far
    snap,       \* connection -> the file do_GET opened and the state open() found it in
    ioError,    \* connection -> do_GET raised an OSError (traceback printed by handle_error)
    wire        \* sequence of connection ids, one per write to a client socket

vars == <<files, listening, cstate, req, resp, snap, ioError, wire>>

\* ---------------------------------------------------------------- bounds
MaxConns == 2
MaxByte == 1

Conns == 1..MaxConns

\* ------------------------------------------------------------- constants
PORT == 8080

TxtFile == "governance-power-methodology.txt"
MdFile == "formatted-governance-methodology.md"
ScriptFile == "download-server.py"

BackingFiles == {TxtFile, MdFile}

Missing == [exists |-> FALSE, data |-> <<>>]

Contents == {<<>>} \cup {<<ToString(b)>> : b \in 1..MaxByte}

FileStates == {Missing} \cup {[exists |-> TRUE, data |-> d] : d \in Contents}

\* request targets
Slash == "/"
PathTxt == <<Slash, "governance-methodology.txt">>
PathMd == <<Slash, "governance-methodology.md">>
PathRoot == <<Slash>>

KnownPaths == {PathRoot, PathTxt, PathMd}

Targets ==
    KnownPaths \cup
    { <<Slash, "unknown">>,
      <<Slash, "?x=1">>,
      <<Slash, "governance-methodology.txt", Slash>>,
      <<Slash, ScriptFile>>,
      <<Slash, TxtFile>>,
      <<Slash, Slash>> }

\* the requests clients send: every target by GET, the known paths and an
\* unknown one by POST, and by HEAD an unknown path and two paths that name
\* files of the working directory
Requests ==
    {[method |-> "GET", target |-> t] : t \in Targets}
    \cup {[method |-> "POST", target |-> t] : t \in KnownPaths \cup {<<Slash, "unknown">>}}
    \cup {[method |-> "HEAD", target |-> t] :
              t \in {<<Slash, "unknown">>, <<Slash, ScriptFile>>, <<Slash, TxtFile>>}}

NoReq == [method |-> "", target |-> <<>>]
NoResp == [status |-> 0, ctype |-> "", cdisp |-> "", body |-> <<>>]
NoSnap == [file |-> "", st |-> Missing]

\* ------------------------------------------------- request line parsing
RECURSIVE LStripSlash(_)
LStripSlash(t) ==
    IF t # <<>> /\ Head(t) = Slash THEN LStripSlash(Tail(t)) ELSE t

\* BaseHTTPRequestHandler.parse_request: self.path is the request target,
\* with a leading run of two or more slashes reduced to one.
ParsePath(t) ==
    IF Len(t) >= 2 /\ t[1] = Slash /\ t[2] = Slash
    THEN <<Slash>> \o LStripSlash(t)
    ELSE t

\* ---------------------------------------------------------------- do_GET
RoutePrefix(path) ==
    IF path = PathTxt THEN "txt"
    ELSE IF path = PathMd THEN "md"
    ELSE IF path # <<>> /\ Head(path) = Slash /\ (Len(path) = 1 \/ path[2] = "?x=1") THEN "index"
    ELSE "notfound"

\* the if / elif chain of do_GET
Route(path) ==
    IF path = PathTxt THEN "txt"
    ELSE IF path = PathMd THEN "md"
    ELSE IF path = PathRoot THEN "index"
    ELSE "notfound"

BackingFileSwapped(route) == IF route = "txt" THEN MdFile ELSE TxtFile

BackingFile(route) == IF route = "txt" THEN TxtFile ELSE MdFile

OkHeadersPlain(route) ==
    IF route = "txt" THEN
        [status |-> 200, ctype |-> "text/plain",
         cdisp |-> "attachment; filename=\"islanddao-governance-methodology.txt\"",
         body |-> <<>>]
    ELSE IF route = "md" THEN
        [status |-> 200, ctype |-> "text/plain",
         cdisp |-> "attachment; filename=\"islanddao-governance-methodology.md\"",
         body |-> <<>>]
    ELSE
        [status |-> 200, ctype |-> "text/html", cdisp |-> "", body |-> <<>>]

\* send_response(200), the send_header calls and end_headers of each branch
OkHeaders(route) ==
    IF route = "txt" THEN
        [status |-> 200, ctype |-> "text/plain",
         cdisp |-> "attachment; filename=\"islanddao-governance-methodology.txt\"",
         body |-> <<>>]
    ELSE IF route = "md" THEN
        [status |-> 200, ctype |-> "text/markdown",
         cdisp |-> "attachment; filename=\"islanddao-governance-methodology.md\"",
         body |-> <<>>]
    ELSE
        [status |-> 200, ctype |-> "text/html", cdisp |-> "", body |-> <<>>]

HtmlPageCounted ==
    << "<h1>IslandDAO Governance Methodology Downloads</h1>",
       "<a href=\"", "/governance-methodology.txt", "\">Download Plain Text Version (.txt)</a>",
       "<a href=\"", "/governance-methodology.md", "\">Download Formatted Version (.md)</a>",
       ToString(Cardinality({c \in Conns : cstate[c] = "closed"})) >>

HtmlPageOneLink ==
    << "<h1>IslandDAO Governance Methodology Downloads</h1>",
       "<a href=\"", "/governance-methodology.txt", "\">Download Plain Text Version (.txt)</a>" >>

\* the html literal of the "/" branch
HtmlPage ==
    << "<h1>IslandDAO Governance Methodology Downloads</h1>",
       "<a href=\"", "/governance-methodology.txt", "\">Download Plain Text Version (.txt)</a>",
       "<a href=\"", "/governance-methodology.md", "\">Download Formatted Version (.md)</a>" >>

\* send_error(code): status line, headers and the library's error page
ErrorPage(code) == <<"Error response", "Error code: ", ToString(code)>>

SendError(code) ==
    [status |-> code, ctype |-> "text/html;charset=utf-8", cdisp |-> "", body |-> ErrorPage(code)]

\* send_error for a HEAD request writes no body
SendErrorHead(code) ==
    [status |-> code, ctype |-> "text/html;charset=utf-8", cdisp |-> "", body |-> <<>>]

FailedRead500(r) == [r EXCEPT !.status = 500]

\* open() raises in do_GET: nothing more is written to the client
FailedRead(r) == r

\* ------------------------------------------- inherited method dispatch
DispatchPostAsGet(method) ==
    IF method = "GET" \/ method = "POST" THEN "do_GET"
    ELSE IF method = "HEAD" THEN "do_HEAD"
    ELSE "unsupported"

\* handle_one_request looks up 'do_' + command on DownloadHandler: do_GET is
\* the override, do_HEAD comes from SimpleHTTPRequestHandler, nothing else exists
Dispatch(method) ==
    IF method = "GET" THEN "do_GET"
    ELSE IF method = "HEAD" THEN "do_HEAD"
    ELSE "unsupported"

\* ---------------------------------------------------- inherited do_HEAD
IsQuery(tok) == tok = "?x=1"

RECURSIVE StripQuery(_)
StripQuery(t) ==
    IF t = <<>> \/ IsQuery(Head(t)) THEN <<>> ELSE <<Head(t)>> \o StripQuery(Tail(t))

Words(t) == SelectSeq(t, LAMBDA tok : tok # Slash)

FileExists(name, fs) ==
    \/ name = ScriptFile
    \/ name \in BackingFiles /\ fs[name].exists

GuessType(name) ==
    IF name = ScriptFile THEN "text/x-python"
    ELSE IF name = TxtFile THEN "text/plain"
    ELSE "application/octet-stream"

\* SimpleHTTPRequestHandler.send_head under do_HEAD: translate_path maps the
\* path into the working directory; a directory gets a listing, an existing
\* regular file gets 200 with its type and length, anything else 404
SendHead(path, fs) ==
    LET p == StripQuery(path)
        w == Words(p)
    IN  IF w = <<>> THEN
            [status |-> 200, ctype |-> "text/html; charset=utf-8", cdisp |-> "", body |-> <<>>]
        ELSE IF Len(w) = 1 /\ p[Len(p)] # Slash /\ FileExists(w[1], fs) THEN
            [status |-> 200, ctype |-> GuessType(w[1]), cdisp |-> "", body |-> <<>>]
        ELSE SendErrorHead(404)

\* ------------------------------------------------------------ the server
ServerIdleThreaded == TRUE

\* socketserver.TCPServer.process_request runs finish_request in the calling
\* thread: serve_forever accepts again only after the handler has returned
ServerIdle == \A c \in Conns : cstate[c] \notin {"accepted", "headers"}

HandleErrorFatal == FALSE

\* _handle_request_noblock catches the handler's exception, prints the
\* traceback (handle_error) and closes the request; serve_forever goes on
HandleError == TRUE

Init ==
    /\ files \in [BackingFiles -> FileStates]
    /\ listening = TRUE
    /\ cstate = [c \in Conns |-> "unborn"]
    /\ req = [c \in Conns |-> NoReq]
    /\ resp = [c \in Conns |-> NoResp]
    /\ snap = [c \in Conns |-> NoSnap]
    /\ ioError = [c \in Conns |-> FALSE]
    /\ wire = <<>>

\* a client connects and sends its request; the connection waits in the
\* listen queue
Connect(c, r) ==
    /\ cstate[c] = "unborn"
    /\ \A d \in Conns : d < c => cstate[d] # "unborn"
    /\ cstate' = [cstate EXCEPT ![c] = "queued"]
    /\ req' = [req EXCEPT ![c] = r]
    /\ UNCHANGED <<files, listening, resp, snap, ioError, wire>>

\* serve_forever: accept the oldest queued connection
Accept(c) ==
    /\ listening
    /\ ServerIdle
    /\ cstate[c] = "queued"
    /\ \A d \in Conns : d < c => cstate[d] # "queued"
    /\ cstate' = [cstate EXCEPT ![c] = "accepted"]
    /\ UNCHANGED <<files, listening, req, resp, snap, ioError, wire>>

\* handle_one_request: parse the request line, dispatch on the method, and
\* run the handler up to its first write
Handle(c) ==
    /\ cstate[c] = "accepted"
    /\ LET path == ParsePath(req[c].target)
           d == Dispatch(req[c].method)
           route == Route(path)
       IN  /\ wire' = Append(wire, c)
           /\ IF d = "unsupported" THEN
                  /\ resp' = [resp EXCEPT ![c] = SendError(501)]
                  /\ cstate' = [cstate EXCEPT ![c] = "closed"]
              ELSE IF d = "do_HEAD" THEN
                  /\ resp' = [resp EXCEPT ![c] = SendHead(path, files)]
                  /\ cstate' = [cstate EXCEPT ![c] = "closed"]
              ELSE IF route = "notfound" THEN
                  /\ resp' = [resp EXCEPT ![c] = SendError(404)]
                  /\ cstate' = [cstate EXCEPT ![c] = "closed"]
              ELSE
                  /\ resp' = [resp EXCEPT ![c] = OkHeaders(route)]
                  /\ cstate' = [cstate EXCEPT ![c] = "headers"]
    /\ UNCHANGED <<files, listening, req, snap, ioError>>

\* do_GET after end_headers: the "/" branch writes the page; a file branch
\* opens the backing file, reads it and writes it, or raises
Body(c) ==
    /\ cstate[c] = "headers"
    /\ LET route == Route(ParsePath(req[c].target))
           f == BackingFile(route)
       IN  IF route = "index" THEN
               /\ resp' = [resp EXCEPT ![c].body = HtmlPage]
               /\ wire' = Append(wire, c)
               /\ UNCHANGED <<snap, ioError, listening>>
           ELSE
               /\ snap' = [snap EXCEPT ![c] = [file |-> f, st |-> files[f]]]
               /\ IF files[f].exists THEN
                      /\ resp' = [resp EXCEPT ![c].body = files[f].data]
                      /\ wire' = Append(wire, c)
                      /\ UNCHANGED <<ioError, listening>>
                  ELSE
                      /\ resp' = [resp EXCEPT ![c] = FailedRead(resp[c])]
                      /\ ioError' = [ioError EXCEPT ![c] = TRUE]
                      /\ listening' = HandleError
                      /\ UNCHANGED wire
    /\ cstate' = [cstate EXCEPT ![c] = "closed"]
    /\ UNCHANGED <<files, req>>

\* the environment replaces or creates a backing file
WriteFile(f, d) ==
    /\ files[f] # [exists |-> TRUE, data |-> d]
    /\ files' = [files EXCEPT ![f] = [exists |-> TRUE, data |-> d]]
    /\ UNCHANGED <<listening, cstate, req, resp, snap, ioError, wire>>

\* the environment removes a backing file (or makes it unreadable)
RemoveFile(f) ==
    /\ files[f].exists
    /\ files' = [files EXCEPT ![f] = Missing]
    /\ UNCHANGED <<listening, cstate, req, resp, snap, ioError, wire>>

ServerStep == \E c \in Conns : Accept(c) \/ Handle(c) \/ Body(c)

Next ==
    \/ \E c \in Conns, r \in Requests : Connect(c, r)
    \/ \E c \in Conns : Accept(c)
    \/ \E c \in Conns : Handle(c)
    \/ \E c \in Conns : Body(c)
    \/ \E f \in BackingFiles, d \in Contents : WriteFile(f, d)
    \/ \E f \in BackingFiles : RemoveFile(f)

Spec == Init /\ [][Next]_vars

FairSpec == Init /\ [][Next]_vars /\ WF_vars(ServerStep)

\* ------------------------------------------------------------ properties
Closed(c) == cstate[c] = "closed"

Get(t) == [method |-> "GET", target |-> t]

Contains(body, s) == \E i \in 1..Len(body) : body[i] = s

HasLeadingSlashes(t) == Len(t) >= 2 /\ t[1] = Slash /\ t[2] = Slash

\* C1: a GET of exactly /governance-methodology.txt that completes while
\* governance-power-methodology.txt is readable completes with status 200,
\* Content-Type text/plain, the .txt attachment disposition and a body equal
\* to the file's contents at that moment (read anew for this request).
C1_TxtDownload ==
    [][\A c \in Conns :
         (~Closed(c) /\ cstate'[c] = "closed" /\ req[c] = Get(PathTxt)
            /\ files[TxtFile].exists)
         => resp'[c] = [status |-> 200, ctype |-> "text/plain",
                        cdisp |-> "attachment; filename=\"islanddao-governance-methodology.txt\"",
                        body |-> files[TxtFile].data]]_vars

\* two completed downloads of the text file carry different bodies: the
\* second one was read again from the changed file
C1_Witness ==
    \E c, d \in Conns :
        /\ c # d /\ Closed(c) /\ Closed(d)
        /\ req[c] = Get(PathTxt) /\ req[d] = Get(PathTxt)
        /\ ~ioError[c] /\ ~ioError[d]
        /\ resp[c].status = 200 /\ resp[d].status = 200
        /\ resp[c].body # resp[d].body

\* C2: a GET of exactly /governance-methodology.md that completes while
\* formatted-governance-methodology.md is readable completes with status
\* 200, Content-Type text/markdown, the .md attachment disposition and a
\* body equal to the markdown file's contents at that moment.
C2_MdDownload ==
    [][\A c \in Conns :
         (~Closed(c) /\ cstate'[c] = "closed" /\ req[c] = Get(PathMd)
            /\ files[MdFile].exists)
         => resp'[c] = [status |-> 200, ctype |-> "text/markdown",
                        cdisp |-> "attachment; filename=\"islanddao-governance-methodology.md\"",
                        body |-> files[MdFile].data]]_vars

\* a completed markdown download whose body differs from the text file
C2_Witness ==
    \E c \in Conns :
        /\ Closed(c) /\ req[c] = Get(PathMd) /\ ~ioError[c]
        /\ resp[c].status = 200 /\ resp[c].ctype = "text/markdown"
        /\ resp[c].body # <<>>
        /\ files[TxtFile].exists /\ files[TxtFile].data # resp[c].body

\* C3: a completed GET of exactly / has status 200, Content-Type text/html,
\* no Content-Disposition and a body with both download links; no backing
\* file was opened for it, whatever the state of the files.
C3_IndexPage ==
    \A c \in Conns :
        (Closed(c) /\ req[c] = Get(PathRoot))
        => /\ resp[c].status = 200
           /\ resp[c].ctype = "text/html"
           /\ resp[c].cdisp = ""
           /\ Contains(resp[c].body, "/governance-methodology.txt")
           /\ Contains(resp[c].body, "/governance-methodology.md")
           /\ \A d \in Conns :
                  (Closed(d) /\ req[d] = Get(PathRoot)) => resp[d].body = resp[c].body
           /\ snap[c] = NoSnap
           /\ ~ioError[c]

\* the page was served although both backing files are missing
C3_Witness ==
    \E c \in Conns :
        /\ Closed(c) /\ req[c] = Get(PathRoot) /\ resp[c].status = 200
        /\ resp[c].body # <<>>
        /\ \A f \in BackingFiles : ~files[f].exists

\* C4 as stated: every completed GET whose request path is not exactly one
\* of the three known paths has status 404.
C4_ExactMatchOrNotFound ==
    \A c \in Conns :
        (Closed(c) /\ req[c].method = "GET" /\ req[c].target \notin KnownPaths)
        => resp[c].status = 404

\* C4 amended: every completed GET whose request path, with a leading run
\* of slashes reduced to one slash, is not exactly one of the three known
\* paths has status 404, and no file was opened for it.
C4_NormalisedMatchOrNotFound ==
    \A c \in Conns :
        (Closed(c) /\ req[c].method = "GET"
            /\ (IF HasLeadingSlashes(req[c].target)
                THEN <<Slash>> \o LStripSlash(req[c].target)
                ELSE req[c].target) \notin KnownPaths)
        => /\ resp[c].status = 404
           /\ snap[c] = NoSnap

\* GET of a path that names an existing file of the working directory, of
\* a known path with a query string and of one with a trailing slash: 404
C4_Witness ==
    \E c \in Conns :
        /\ Closed(c) /\ req[c].method = "GET"
        /\ req[c].target \in {<<Slash, TxtFile>>, <<Slash, "?x=1">>,
                              <<Slash, "governance-methodology.txt", Slash>>}
        /\ files[TxtFile].exists
        /\ resp[c].status = 404

C6_HeadIs404 ==
    \A c \in Conns :
        (Closed(c) /\ req[c].method = "HEAD" /\ req[c].target \notin KnownPaths)
        => resp[c].status = 404

InProgress == {c \in Conns : cstate[c] \in {"accepted", "headers"}}

\* C8: at most one request is in progress; while one is, every connection
\* accepted before it is closed; and the writes of one response are never
\* separated by a write of another.
C8_OneAtATime ==
    /\ Cardinality(InProgress) <= 1
    /\ \A c \in InProgress : \A d \in Conns : d < c => Closed(d)
    /\ \A i, j, k \in 1..Len(wire) :
           (i < j /\ j < k /\ wire[i] = wire[k]) => wire[j] = wire[i]

\* one response is half written while another client waits in the queue
C8_Witness ==
    \E c, d \in Conns :
        /\ cstate[c] = "headers" /\ cstate[d] = "queued"
        /\ Len(wire) >= 1

\* C9: in do_GET for the two file paths the 200 status line and both
\* headers are out before the file is opened; when the file is then missing
\* the request ends with an I/O error, status 200 already sent, no body and
\* no error status.
C9_HeadersBeforeOpen ==
    \A c \in Conns :
        /\ (cstate[c] = "headers" /\ req[c] \in {Get(PathTxt), Get(PathMd)})
           => /\ resp[c].status = 200
              /\ resp[c].ctype \in {"text/plain", "text/markdown"}
              /\ resp[c].cdisp # ""
              /\ snap[c] = NoSnap
        /\ (Closed(c) /\ req[c] \in {Get(PathTxt), Get(PathMd)}
              /\ ~snap[c].st.exists)
           => /\ ioError[c]
              /\ resp[c].status = 200
              /\ resp[c].cdisp # ""
              /\ resp[c].body = <<>>
        /\ ioError[c] => req[c].method = "GET" /\ resp[c].status = 200

C9_Witness ==
    \E c \in Conns :
        /\ Closed(c) /\ req[c] = Get(PathMd) /\ ioError[c]
        /\ resp[c].status = 200 /\ resp[c].body = <<>>

\* C10: the server keeps listening after a failed download; every queued
\* request is eventually answered (again and again the server reaches a
\* state with no connection queued or in progress, and a connection never
\* returns to the queue); and a request answered after a failed one gets
\* the response of its own path and of the file as it then is.
C10_IndependentRequests ==
    /\ [](listening)
    /\ []<>(\A c \in Conns : cstate[c] \in {"unborn", "closed"})
    /\ [](\A c, d \in Conns :
            (d < c /\ ioError[d] /\ Closed(c))
            => /\ (req[c] = Get(PathRoot)
                     => resp[c].status = 200
                        /\ Contains(resp[c].body, "/governance-methodology.md"))
               /\ (req[c] \in {Get(PathTxt), Get(PathMd)} /\ snap[c].st.exists
                     => resp[c].status = 200 /\ ~ioError[c]
                        /\ resp[c].body = snap[c].st.data))

\* a download failed and a later download of the same path succeeded
C10_Witness ==
    \E c, d \in Conns :
        /\ d < c /\ Closed(d) /\ ioError[d]
        /\ Closed(c) /\ req[c] = req[d] /\ ~ioError[c]
        /\ resp[c].status = 200 /\ resp[c].body # <<>>

====
